---- MODULE Spec2Model ----
(***************************************************************************)
(* MIDI clock to analogue sync (src/code.py).                              *)
(*                                                                         *)
(* One iteration of loop(idx) is modelled in two steps, in the order of    *)
(* the code: first the release check / idle ramp (lines 141-151), then the *)
(* non-blocking receive with its dispatch (lines 153-171) followed by the  *)
(* index advance of main (line 270).  pc says which of the two is next.    *)
(* Time is the reading of time.monotonic() * 1000, in whole milliseconds.  *)
(***************************************************************************)
EXTENDS Integers, Naturals, Sequences, FiniteSets, TLC

VARIABLES
    pulsing,             \* global pulsing (transport Running)
    clock_ticks,         \* global clock_ticks
    pulse_check_millis,  \* time of the last release check
    pulse_led_millis,    \* time the indicator was asserted, 0 = none
    pulse_sync_millis,   \* time the sync line was asserted, 0 = none
    led_duty_cycle,      \* led.duty_cycle
    sync_value,          \* sync.value
    idx,                 \* loop index of main
    now,                 \* monotonic clock, milliseconds
    pc,                  \* "poll": lines 141-151 next; "recv": lines 153-171 next
    msg_in,              \* kind of the message the last receive returned
    checked,             \* the last first half ran the release check
    last_transport,      \* most recent Start-or-Stop message, "None" before any
    n_clocks,            \* clocks processed by handle_clock since the last Start
    half_reqs,           \* half-beat pulse requests since the last Start
    beat_reqs            \* strong beat requests since the last Start

vars == <<pulsing, clock_ticks, pulse_check_millis, pulse_led_millis,
          pulse_sync_millis, led_duty_cycle, sync_value, idx, now, pc,
          msg_in, checked, last_transport, n_clocks, half_reqs, beat_reqs>>

(* ------------------------------ bounds --------------------------------- *)

BootMillis == 1       \* clock reading when setup returns (counts from power-on)
MaxIter == 7          \* loop iterations explored by Spec
MaxTime == 40         \* largest clock reading explored by Spec
MaxIterBeat == 51     \* loop iterations explored by SpecBeat
MaxTimeBeat == 52     \* largest clock reading explored by SpecBeat

QuietIters == 2045    \* SpecRamp: iterations before the first message arrives
MaxIterRamp == 2052   \* loop iterations explored by SpecRamp
MaxTimeRamp == 2060   \* largest clock reading explored by SpecRamp

Steps == {0, 1, 5, 15}   \* time that may pass between two steps of Spec
Jitter == {0, 1}         \* time that may pass between two reads in a handler
StepsBeat == {1}         \* SpecBeat: one millisecond per iteration
JitterBeat == {0}

(* ------------------------- program constants --------------------------- *)

pulse_check == 5
pulse_led == 15
pulse_sync == 15
HalfBeatTicks == 12
BeatTicks == 24
WeakLevel == 1        \* level=0.001, in thousandths
StrongLevel == 200    \* level=0.2, in thousandths
FullScale == 65535
RampMod == 2048
IdxMod == 65536

MsgKinds == {"None", "TimingClock", "Start", "Stop", "Unknown", "Other"}

(* ----------------------------- channels -------------------------------- *)

\* int(65535 * level), level given in thousandths
Duty(level) == (FullScale * level) \div 1000

led_pin_on(level, t) == [duty_cycle |-> Duty(level), millis |-> t]

led_pin_off == [duty_cycle |-> 0, millis |-> 0]

\* variant: a request on a channel that is still asserted keeps the old timestamp
sync_pin_on_keep(t) ==
    [value |-> TRUE, millis |-> IF sync_value THEN pulse_sync_millis ELSE t]

sync_pin_on(t) == [value |-> TRUE, millis |-> t]

\* variant: the line is driven low but the timestamp is not cleared
sync_pin_off_keep == [value |-> FALSE, millis |-> pulse_sync_millis]

sync_pin_off == [value |-> FALSE, millis |-> 0]

\* variant: ">=" in place of ">"
Expired_early(t, millis, hold) == millis # 0 /\ (t - millis) >= hold

\* "pulse_x_millis and (now - pulse_x_millis) > pulse_x"
Expired(t, millis, hold) == millis # 0 /\ (t - millis) > hold

\* variant: ">=" in place of ">"
CheckDue_atleast(t) == (t - pulse_check_millis) >= pulse_check

\* "(now - pulse_check_millis) > pulse_check"
CheckDue(t) == (t - pulse_check_millis) > pulse_check

(* --------------------------- clock divider ----------------------------- *)

\* variant: the half-beat test divides by 24 as well
IsHalfBeat_beat(ticks) == (ticks % BeatTicks) = 0

IsHalfBeat(ticks) == (ticks % HalfBeatTicks) = 0

IsBeat(ticks) == (ticks % BeatTicks) = 0

\* variant: the counter wraps inside [0, 24)
NextTicks_wrap(ticks) == (ticks + 1) % BeatTicks

\* variant: the reset is lost
NextTicks_noreset(ticks) == ticks + 1

\* "if beat: clock_ticks = 0" followed by "clock_ticks += 1"
NextTicks(ticks) == (IF IsBeat(ticks) THEN 0 ELSE ticks) + 1

ghosts_unchanged == UNCHANGED <<last_transport, n_clocks, half_reqs, beat_reqs>>

channels_unchanged ==
    UNCHANGED <<pulse_led_millis, pulse_sync_millis, led_duty_cycle, sync_value>>

\* variant: the strong level is written first and the weak level after it
handle_clock_body_weaklast(j1, j2, j3, maxTime) ==
    LET half == IsHalfBeat(clock_ticks)
        beat == IsBeat(clock_ticks)
        t1 == now + j1
        t2 == t1 + j2
        t3 == t2 + j3
        led0 == [duty_cycle |-> led_duty_cycle, millis |-> pulse_led_millis]
        sync0 == [value |-> sync_value, millis |-> pulse_sync_millis]
        led1 == IF beat THEN led_pin_on(StrongLevel, t1) ELSE led0
        sync1 == IF half THEN sync_pin_on(t2) ELSE sync0
        led2 == IF half THEN led_pin_on(WeakLevel, t3) ELSE led1
        tEnd == IF half THEN t3 ELSE now
    IN  /\ tEnd <= maxTime
        /\ ~half => (j1 = 0 /\ j2 = 0 /\ j3 = 0)
        /\ led_duty_cycle' = led2.duty_cycle
        /\ pulse_led_millis' = led2.millis
        /\ sync_value' = sync1.value
        /\ pulse_sync_millis' = sync1.millis
        /\ clock_ticks' = NextTicks(clock_ticks)
        /\ now' = tEnd
        /\ n_clocks' = n_clocks + 1
        /\ half_reqs' = IF half THEN half_reqs + 1 ELSE half_reqs
        /\ beat_reqs' = IF beat THEN beat_reqs + 1 ELSE beat_reqs
        /\ UNCHANGED <<pulsing, last_transport>>

\* handle_clock past its early return (lines 183-204); j1, j2, j3 is the time
\* that passes before each of the (up to) three reads of the clock made by
\* led_pin_on, sync_pin_on and led_pin_on, maxTime the horizon
handle_clock_body(j1, j2, j3, maxTime) ==
    LET half == IsHalfBeat(clock_ticks)
        beat == IsBeat(clock_ticks)
        t1 == now + j1
        t2 == t1 + j2
        t3 == t2 + j3
        led0 == [duty_cycle |-> led_duty_cycle, millis |-> pulse_led_millis]
        sync0 == [value |-> sync_value, millis |-> pulse_sync_millis]
        led1 == IF half THEN led_pin_on(WeakLevel, t1) ELSE led0
        sync1 == IF half THEN sync_pin_on(t2) ELSE sync0
        led2 == IF beat THEN led_pin_on(StrongLevel, t3) ELSE led1
        tEnd == IF beat THEN t3 ELSE IF half THEN t2 ELSE now
    IN  /\ tEnd <= maxTime
        /\ ~half => (j1 = 0 /\ j2 = 0)
        /\ ~beat => j3 = 0
        /\ led_duty_cycle' = led2.duty_cycle
        /\ pulse_led_millis' = led2.millis
        /\ sync_value' = sync1.value
        /\ pulse_sync_millis' = sync1.millis
        /\ clock_ticks' = NextTicks(clock_ticks)
        /\ now' = tEnd
        /\ n_clocks' = n_clocks + 1
        /\ half_reqs' = IF half THEN half_reqs + 1 ELSE half_reqs
        /\ beat_reqs' = IF beat THEN beat_reqs + 1 ELSE beat_reqs
        /\ UNCHANGED <<pulsing, last_transport>>

\* a clock that is received but not acted on
clock_ignored(j1, j2, j3) ==
    /\ j1 = 0 /\ j2 = 0 /\ j3 = 0
    /\ channels_unchanged
    /\ UNCHANGED <<pulsing, clock_ticks, now>>
    /\ ghosts_unchanged

handle_clock(j1, j2, j3, maxTime) ==
    IF ~pulsing
    THEN clock_ignored(j1, j2, j3)
    ELSE handle_clock_body(j1, j2, j3, maxTime)

\* variant: a pulse is sent on Start itself
handle_start_pulse ==
    /\ clock_ticks' = 0
    /\ pulsing' = TRUE
    /\ led_duty_cycle' = led_pin_on(StrongLevel, now).duty_cycle
    /\ pulse_led_millis' = led_pin_on(StrongLevel, now).millis
    /\ sync_value' = sync_pin_on(now).value
    /\ pulse_sync_millis' = sync_pin_on(now).millis
    /\ UNCHANGED now

\* variant: clock_ticks not declared global, so the reset is lost
handle_start_noreset ==
    /\ pulsing' = TRUE
    /\ channels_unchanged
    /\ UNCHANGED <<clock_ticks, now>>

handle_start ==
    /\ clock_ticks' = 0
    /\ pulsing' = TRUE
    /\ channels_unchanged
    /\ UNCHANGED now

\* variant: pulsing not declared global, so the assignment is lost
handle_stop_local ==
    /\ channels_unchanged
    /\ UNCHANGED <<pulsing, clock_ticks, now>>

\* variant: Stop also drives the outputs off
handle_stop_cancel ==
    /\ pulsing' = FALSE
    /\ led_duty_cycle' = led_pin_off.duty_cycle
    /\ pulse_led_millis' = led_pin_off.millis
    /\ sync_value' = sync_pin_off.value
    /\ pulse_sync_millis' = sync_pin_off.millis
    /\ UNCHANGED <<clock_ticks, now>>

handle_stop ==
    /\ pulsing' = FALSE
    /\ channels_unchanged
    /\ UNCHANGED <<clock_ticks, now>>

(* ------------------------------- loop ---------------------------------- *)

\* lines 141-149: Running; d is the time passed since the previous step
loop_check(d, maxIter, maxTime) ==
    /\ pc = "poll"
    /\ idx < maxIter
    /\ pulsing
    /\ now + d <= maxTime
    /\ now' = now + d
    /\ IF CheckDue(now')
       THEN /\ IF Expired(now', pulse_led_millis, pulse_led)
               THEN /\ led_duty_cycle' = led_pin_off.duty_cycle
                    /\ pulse_led_millis' = led_pin_off.millis
               ELSE UNCHANGED <<led_duty_cycle, pulse_led_millis>>
            /\ IF Expired(now', pulse_sync_millis, pulse_sync)
               THEN /\ sync_value' = sync_pin_off.value
                    /\ pulse_sync_millis' = sync_pin_off.millis
               ELSE UNCHANGED <<sync_value, pulse_sync_millis>>
            /\ pulse_check_millis' = now'
            /\ checked' = TRUE
       ELSE /\ channels_unchanged
            /\ UNCHANGED pulse_check_millis
            /\ checked' = FALSE
    /\ pc' = "recv"
    /\ UNCHANGED <<pulsing, clock_ticks, idx, msg_in>>
    /\ ghosts_unchanged

\* variant: the ramp modulus is missing
loop_idle_nomod(d, maxIter, maxTime) ==
    /\ pc = "poll"
    /\ idx < maxIter
    /\ ~pulsing
    /\ now + d <= maxTime
    /\ now' = now + d
    /\ led_duty_cycle' = idx
    /\ checked' = FALSE
    /\ pc' = "recv"
    /\ UNCHANGED <<pulsing, clock_ticks, idx, msg_in, pulse_check_millis,
                   pulse_led_millis, pulse_sync_millis, sync_value>>
    /\ ghosts_unchanged

\* lines 150-151: Stopped, the idle ramp
loop_idle(d, maxIter, maxTime) ==
    /\ pc = "poll"
    /\ idx < maxIter
    /\ ~pulsing
    /\ now + d <= maxTime
    /\ now' = now + d
    /\ led_duty_cycle' = idx % RampMod
    /\ checked' = FALSE
    /\ pc' = "recv"
    /\ UNCHANGED <<pulsing, clock_ticks, idx, msg_in, pulse_check_millis,
                   pulse_led_millis, pulse_sync_millis, sync_value>>
    /\ ghosts_unchanged

\* the end of every iteration: back to main, which advances the index
iteration_end(kind) ==
    /\ pc = "recv"
    /\ pc' = "poll"
    /\ msg_in' = kind
    /\ idx' = (idx + 1) % IdxMod
    /\ UNCHANGED <<pulse_check_millis, checked>>

\* midi.receive() returned None
recv_none ==
    /\ iteration_end("None")
    /\ channels_unchanged
    /\ UNCHANGED <<pulsing, clock_ticks, now>>
    /\ ghosts_unchanged

\* variant: a blocking pulse, the sync line is driven low before the call returns
recv_clock_blocking(j1, j2, j3, maxTime) ==
    /\ iteration_end("TimingClock")
    /\ IF pulsing /\ IsHalfBeat(clock_ticks)
       THEN /\ j1 = 0 /\ j2 = 0 /\ j3 = 0
            /\ sync_value' = sync_pin_off.value
            /\ pulse_sync_millis' = sync_pin_off.millis
            /\ led_duty_cycle' = led_pin_on(WeakLevel, now).duty_cycle
            /\ pulse_led_millis' = led_pin_on(WeakLevel, now).millis
            /\ clock_ticks' = NextTicks(clock_ticks)
            /\ n_clocks' = n_clocks + 1
            /\ half_reqs' = half_reqs + 1
            /\ beat_reqs' = IF IsBeat(clock_ticks) THEN beat_reqs + 1 ELSE beat_reqs
            /\ UNCHANGED <<pulsing, last_transport, now>>
       ELSE handle_clock(j1, j2, j3, maxTime)

\* variant: the clock is forwarded whatever the transport state
recv_clock_unguarded(j1, j2, j3, maxTime) ==
    /\ iteration_end("TimingClock")
    /\ handle_clock_body(j1, j2, j3, maxTime)

\* lines 156-159
recv_clock(j1, j2, j3, maxTime) ==
    /\ iteration_end("TimingClock")
    /\ IF pulsing
       THEN handle_clock(j1, j2, j3, maxTime)
       ELSE clock_ignored(j1, j2, j3)

\* lines 160-162
recv_start ==
    /\ iteration_end("Start")
    /\ handle_start
    /\ last_transport' = "Start"
    /\ n_clocks' = 0
    /\ half_reqs' = 0
    /\ beat_reqs' = 0

\* lines 163-165
recv_stop ==
    /\ iteration_end("Stop")
    /\ handle_stop
    /\ last_transport' = "Stop"
    /\ UNCHANGED <<n_clocks, half_reqs, beat_reqs>>

\* variant: an unrecognised status byte is taken for Stop
recv_unknown_stops ==
    /\ iteration_end("Unknown")
    /\ handle_stop
    /\ ghosts_unchanged

\* lines 166-169: MIDIUnknownEvent, only printed
recv_unknown ==
    /\ iteration_end("Unknown")
    /\ channels_unchanged
    /\ UNCHANGED <<pulsing, clock_ticks, now>>
    /\ ghosts_unchanged

\* lines 170-171: any other message, only printed
recv_other ==
    /\ iteration_end("Other")
    /\ channels_unchanged
    /\ UNCHANGED <<pulsing, clock_ticks, now>>
    /\ ghosts_unchanged

(* --------------------------- specifications ---------------------------- *)

Init ==
    /\ pulsing = FALSE
    /\ clock_ticks = 0
    /\ pulse_check_millis = 0
    /\ pulse_led_millis = 0
    /\ pulse_sync_millis = 0
    /\ led_duty_cycle = 0
    /\ sync_value = FALSE
    /\ idx = 0
    /\ now = BootMillis
    /\ pc = "poll"
    /\ msg_in = "None"
    /\ checked = FALSE
    /\ last_transport = "None"
    /\ n_clocks = 0
    /\ half_reqs = 0
    /\ beat_reqs = 0

Next ==
    \/ \E d \in Steps : loop_check(d, MaxIter, MaxTime)
    \/ \E d \in Steps : loop_idle(d, MaxIter, MaxTime)
    \/ recv_none
    \/ \E j1, j2, j3 \in Jitter : recv_clock(j1, j2, j3, MaxTime)
    \/ recv_start
    \/ recv_stop
    \/ recv_unknown
    \/ recv_other

Spec == Init /\ [][Next]_vars

\* long runs at one millisecond per iteration, for the clock divider
NextBeat ==
    \/ \E d \in StepsBeat : loop_check(d, MaxIterBeat, MaxTimeBeat)
    \/ \E d \in StepsBeat : loop_idle(d, MaxIterBeat, MaxTimeBeat)
    \/ recv_none
    \/ \E j1, j2, j3 \in JitterBeat : recv_clock(j1, j2, j3, MaxTimeBeat)
    \/ recv_start
    \/ recv_stop
    \/ recv_unknown
    \/ recv_other

SpecBeat == Init /\ [][NextBeat]_vars

\* a sender that stays silent for the first QuietIters iterations, at one
\* millisecond per iteration: the idle ramp runs past its modulus
NextRamp ==
    \/ \E d \in StepsBeat : loop_check(d, MaxIterRamp, MaxTimeRamp)
    \/ \E d \in StepsBeat : loop_idle(d, MaxIterRamp, MaxTimeRamp)
    \/ recv_none
    \/ idx >= QuietIters /\ \E j1, j2, j3 \in JitterBeat : recv_clock(j1, j2, j3, MaxTimeRamp)
    \/ idx >= QuietIters /\ recv_start
    \/ idx >= QuietIters /\ recv_stop
    \/ idx >= QuietIters /\ recv_unknown
    \/ idx >= QuietIters /\ recv_other

SpecRamp == Init /\ [][NextRamp]_vars

(* ------------------------------ claims --------------------------------- *)

CeilDiv(n, k) == (n + k - 1) \div k

\* the step is the dispatch of a message of this kind (second half of loop)
Dispatching(kind) == pc = "recv" /\ msg_in' = kind

\* the step is the first half of an iteration in which the release check ran
Checking == pc = "poll" /\ checked'

program_vars == <<pulsing, clock_ticks, pulse_check_millis, pulse_led_millis,
                  pulse_sync_millis, led_duty_cycle, sync_value, now>>

channel_vars == <<pulse_led_millis, pulse_sync_millis, led_duty_cycle, sync_value>>

\* C1 as stated: after Start and n clocks with no other Start/Stop, there were
\* floor(n/12) half-beat requests, floor(n/24) of them strong.
C1_FloorCount ==
    last_transport = "Start" =>
        /\ half_reqs = n_clocks \div HalfBeatTicks
        /\ beat_reqs = n_clocks \div BeatTicks

\* C1 amended: after Start and n clocks with no other Start/Stop, there were
\* ceil(n/12) half-beat requests, ceil(n/24) of them strong (the first clock
\* after Start already requests a strong pulse).
C1_CeilCount ==
    last_transport = "Start" =>
        /\ half_reqs = CeilDiv(n_clocks, HalfBeatTicks)
        /\ beat_reqs = CeilDiv(n_clocks, BeatTicks)

C1_Witness ==
    /\ last_transport = "Start"
    /\ n_clocks = 49
    /\ half_reqs = 5
    /\ beat_reqs = 3

\* C2 as stated: between loop iterations the counter is in [0, 24), never 24.
C2_BelowBeat == pc = "poll" => clock_ticks \in 0..(BeatTicks - 1)

\* C2 amended: in every state the counter is an integer in [0, 24]; it holds
\* 24 after every 24th clock and never exceeds it.
C2_AtMostBeat ==
    /\ clock_ticks \in 0..BeatTicks
    /\ (pulsing /\ n_clocks > 0 /\ n_clocks % BeatTicks = 0) => clock_ticks = BeatTicks

C2_Witness == pc = "poll" /\ pulsing /\ n_clocks = 48 /\ clock_ticks = BeatTicks

\* C3: the k-th clock processed since the last Start (k = 0, 1, ...) requests a
\* half-beat pulse, asserting the sync line and the indicator, iff k mod 12 = 0,
\* and that request is strong iff k mod 24 = 0; other clocks request nothing.
C3_PulseEveryTwelve ==
    [][n_clocks' = n_clocks + 1 =>
         /\ IF n_clocks % HalfBeatTicks = 0
            THEN /\ half_reqs' = half_reqs + 1
                 /\ sync_value'
                 /\ pulse_sync_millis' \in now..now'
                 /\ pulse_led_millis' \in now..now'
                 /\ led_duty_cycle' = IF n_clocks % BeatTicks = 0
                                      THEN Duty(StrongLevel)
                                      ELSE Duty(WeakLevel)
            ELSE /\ half_reqs' = half_reqs
                 /\ UNCHANGED channel_vars
         /\ beat_reqs' = IF n_clocks % BeatTicks = 0 THEN beat_reqs + 1 ELSE beat_reqs
    ]_vars

\* the clock with k = 12 has just requested a weak pulse
C3_Witness ==
    /\ msg_in = "TimingClock"
    /\ pc = "poll"
    /\ pulsing
    /\ n_clocks = 13
    /\ half_reqs = 2
    /\ beat_reqs = 1
    /\ sync_value
    /\ led_duty_cycle = Duty(WeakLevel)

\* C4 as stated, in the form a finite run refutes: a sync line that was
\* asserted (at a positive time) is driven low again; once more than the hold
\* duration plus the check interval has passed since the assertion and the
\* loop has run the first half of an iteration, the line is low.
C4_SyncReleased ==
    (pc = "recv" /\ sync_value /\ pulse_sync_millis > 0) =>
        now - pulse_sync_millis <= pulse_sync + pulse_check

\* C5: the transport is Stopped initially and Running iff the most recent
\* Start-or-Stop message was a Start; only the dispatch of Start or Stop
\* changes it.
C5_Transport ==
    /\ [](pulsing <=> last_transport = "Start")
    /\ [][pulsing' # pulsing => (Dispatching("Start") \/ Dispatching("Stop"))]_vars
    /\ [][Dispatching("Start") => pulsing']_vars
    /\ [][Dispatching("Stop") => ~pulsing']_vars

\* Start, clocks, then Stop: Stopped again, and later steps left it so
C5_Witness ==
    /\ ~pulsing
    /\ last_transport = "Stop"
    /\ n_clocks > 0
    /\ msg_in = "Unknown"

\* C6: dispatching Start from any state yields Running with counter 0, and a
\* Start dispatched right after a Start changes nothing of the program state.
C6_StartResets ==
    /\ [][Dispatching("Start") => (pulsing' /\ clock_ticks' = 0)]_vars
    /\ [][(Dispatching("Start") /\ msg_in = "Start") => UNCHANGED program_vars]_vars

\* [Start, Start]: the second Start was dispatched while Running
C6_Witness ==
    /\ pc = "poll"
    /\ idx = 2
    /\ msg_in = "Start"
    /\ checked
    /\ pulsing
    /\ clock_ticks = 0

\* C7: a clock dispatched while Stopped changes nothing (no request, counter
\* and channels as before); after [Start, Clock x a, Stop, Clock x b] the
\* requests are those of [Start, Clock x a]; a later Start begins at counter 0.
C7_StoppedClockIgnored ==
    /\ [][(Dispatching("TimingClock") /\ ~pulsing) =>
            (UNCHANGED program_vars /\ UNCHANGED <<n_clocks, half_reqs, beat_reqs>>)]_vars
    /\ [](last_transport = "Stop" =>
            /\ half_reqs = CeilDiv(n_clocks, HalfBeatTicks)
            /\ beat_reqs = CeilDiv(n_clocks, BeatTicks))
    /\ [][Dispatching("Start") => (clock_ticks' = 0 /\ n_clocks' = 0)]_vars

\* [Start, Clock x 13, Stop, Clock]: still the two requests of the 13 clocks
C7_Witness ==
    /\ ~pulsing
    /\ last_transport = "Stop"
    /\ msg_in = "TimingClock"
    /\ n_clocks = 13
    /\ clock_ticks = 13
    /\ half_reqs = 2

\* C8: dispatching Stop changes only the transport state: counter, timestamps
\* and outputs stay, so an in-flight pulse is not cancelled and Stop while
\* Stopped changes nothing.
C8_StopOnlyTransport ==
    /\ [][Dispatching("Stop") =>
            /\ ~pulsing'
            /\ UNCHANGED <<clock_ticks, pulse_check_millis, now>>
            /\ UNCHANGED channel_vars
            /\ UNCHANGED <<n_clocks, half_reqs, beat_reqs>>]_vars
    /\ [][(Dispatching("Stop") /\ ~pulsing) => UNCHANGED program_vars]_vars

\* Stop arrived while the sync line was high: it is still high
C8_Witness ==
    /\ pc = "poll"
    /\ msg_in = "Stop"
    /\ ~pulsing
    /\ sync_value
    /\ pulse_sync_millis # 0
    /\ led_duty_cycle = Duty(StrongLevel)

\* C9: a release check at time now leaves a channel asserted at T untouched
\* when now - T <= 15, and drives it off and clears its timestamp when
\* now - T > 15; a check on a released channel changes nothing, and a channel
\* is released only by such a check.
C9_ReleaseAfterHold ==
    /\ [][Checking =>
            /\ IF pulse_sync_millis # 0 /\ now' - pulse_sync_millis > pulse_sync
               THEN ~sync_value' /\ pulse_sync_millis' = 0
               ELSE UNCHANGED <<sync_value, pulse_sync_millis>>
            /\ IF pulse_led_millis # 0 /\ now' - pulse_led_millis > pulse_led
               THEN led_duty_cycle' = 0 /\ pulse_led_millis' = 0
               ELSE UNCHANGED <<led_duty_cycle, pulse_led_millis>>]_vars
    /\ [][(sync_value /\ ~sync_value') => Checking]_vars
    /\ [][(pulse_led_millis # 0 /\ pulse_led_millis' = 0) => Checking]_vars

\* the check ran 16 ms after the sync line and 15 ms after the indicator were
\* asserted: the sync line is released, the indicator is not
C9_Witness ==
    /\ pc = "recv"
    /\ checked
    /\ half_reqs = 1
    /\ ~sync_value
    /\ pulse_sync_millis = 0
    /\ led_duty_cycle = Duty(StrongLevel)
    /\ now - pulse_led_millis = pulse_led

\* C10: a request on a channel overwrites its timestamp with the time of the
\* request, asserted or not, and a channel is never released at a time now
\* with now - (its latest request time) <= 15.
C10_RetriggerExtends ==
    /\ [][half_reqs' = half_reqs + 1 =>
            /\ sync_value'
            /\ pulse_sync_millis' \in now..now'
            /\ pulse_led_millis' \in now..now'
            /\ IF beat_reqs' = beat_reqs + 1
               THEN pulse_led_millis' = now' /\ pulse_sync_millis' <= pulse_led_millis'
               ELSE pulse_sync_millis' = now' /\ pulse_led_millis' <= pulse_sync_millis']_vars
    /\ [][(sync_value /\ ~sync_value') => now' - pulse_sync_millis > pulse_sync]_vars
    /\ [][(pulse_led_millis # 0 /\ pulse_led_millis' = 0) =>
            now' - pulse_led_millis > pulse_led]_vars

\* [Start, Clock x 13] at one millisecond per iteration: the request of the
\* clock with k = 12 hit the sync line 12 ms after that of k = 0, still high
C10_Witness ==
    /\ pc = "poll"
    /\ idx = 14
    /\ n_clocks = 13
    /\ half_reqs = 2
    /\ sync_value
    /\ pulse_sync_millis = now

\* C11: dispatching an Unknown or Other message, and an iteration that
\* receives nothing, leaves transport, counter and every channel's timestamp
\* and output as they were; every message kind can be dispatched in every
\* state that waits for one.
C11_OthersDiscarded ==
    /\ [][(Dispatching("Unknown") \/ Dispatching("Other") \/ Dispatching("None")) =>
            /\ UNCHANGED program_vars
            /\ UNCHANGED <<last_transport, n_clocks, half_reqs, beat_reqs>>
            /\ pc' = "poll"]_vars
    /\ [](pc = "recv" =>
            /\ ENABLED recv_unknown
            /\ ENABLED recv_other
            /\ ENABLED recv_none
            /\ ENABLED recv_start
            /\ ENABLED recv_stop
            /\ \E j1, j2, j3 \in Jitter : ENABLED recv_clock(j1, j2, j3, MaxTime))

\* an Unknown message arrived while Running with a pulse in flight
C11_Witness ==
    /\ pc = "poll"
    /\ msg_in = "Unknown"
    /\ pulsing
    /\ clock_ticks = 1
    /\ sync_value
    /\ pulse_sync_millis # 0

\* C12: an iteration whose first half performed the idle-ramp write (the
\* transport was Stopped at its start) neither asserts nor releases an
\* indicator pulse, whatever message it receives.
C12_IdleExcludesPulse ==
    /\ [][(pc = "poll" /\ ~pulsing) =>
            (~checked' /\ pulse_led_millis' = pulse_led_millis)]_vars
    /\ [][(pc = "recv" /\ ~pulsing) =>
            (UNCHANGED <<led_duty_cycle, pulse_led_millis>> /\ half_reqs' # half_reqs + 1)]_vars

\* an idle iteration received Start: the indicator still shows the ramp
C12_Witness ==
    /\ pc = "poll"
    /\ msg_in = "Start"
    /\ pulsing
    /\ idx = 3
    /\ led_duty_cycle = 2
    /\ pulse_led_millis = 0

\* C13: pulses are requested only in the second half of an iteration and
\* released only in the first half, so a pulse requested in iteration N is
\* still asserted when iteration N ends; its release is in N+1 at the earliest.
C13_ReleaseNextIteration ==
    /\ [][half_reqs' = half_reqs + 1 =>
            /\ pc = "recv" /\ pc' = "poll"
            /\ idx' = idx + 1
            /\ sync_value' /\ pulse_sync_millis' # 0
            /\ led_duty_cycle' # 0 /\ pulse_led_millis' # 0]_vars
    /\ [][((sync_value /\ ~sync_value') \/ (pulse_led_millis # 0 /\ pulse_led_millis' = 0)) =>
            (pc = "poll" /\ pc' = "recv" /\ idx' = idx /\ half_reqs' = half_reqs)]_vars

\* [Start, Clock], then the first half of the third iteration released the line
C13_Witness ==
    /\ pc = "recv"
    /\ idx = 2
    /\ checked
    /\ half_reqs = 1
    /\ ~sync_value
    /\ pulse_sync_millis = 0

\* C14 as stated: for each channel, in every state, the output is on iff the
\* assertion timestamp is non-zero.
C14_EveryChannel ==
    /\ sync_value <=> pulse_sync_millis # 0
    /\ led_duty_cycle # 0 <=> pulse_led_millis # 0

\* C14 amended: for the sync line, in every state, the output is high iff
\* pulse_sync_millis is non-zero.
C14_SyncLine == sync_value <=> pulse_sync_millis # 0

\* a pulse in flight at Stop: the idle ramp has taken the indicator, the sync
\* line and its timestamp still agree
C14_Witness ==
    /\ pc = "recv"
    /\ ~pulsing
    /\ last_transport = "Stop"
    /\ sync_value
    /\ pulse_sync_millis # 0
    /\ pulse_led_millis # 0
    /\ led_duty_cycle = idx % RampMod

\* C15: dispatching Start requests no pulse and leaves every channel's output
\* and timestamp unchanged; the first pulse after a Start is requested by the
\* first clock dispatched after it.
C15_NoPulseOnStart ==
    /\ [][Dispatching("Start") => (UNCHANGED channel_vars /\ half_reqs' = 0)]_vars
    /\ [](n_clocks = 0 => (half_reqs = 0 /\ beat_reqs = 0))
    /\ [][(Dispatching("TimingClock") /\ pulsing /\ n_clocks = 0) =>
            /\ half_reqs' = 1
            /\ sync_value'
            /\ pulse_sync_millis' \in now..now'
            /\ pulse_led_millis' \in now..now']_vars

\* Start was dispatched in the first iteration: nothing is asserted
C15_Witness ==
    /\ pc = "poll"
    /\ idx = 1
    /\ msg_in = "Start"
    /\ pulsing
    /\ ~sync_value
    /\ pulse_sync_millis = 0
    /\ pulse_led_millis = 0
    /\ led_duty_cycle = 0

\* C16 as stated: while Running the release check runs iff at least 5 ms have
\* passed since the last-poll timestamp.
C16_AtLeastInterval ==
    [][(pc = "poll" /\ pulsing) =>
         (checked' <=> (now' - pulse_check_millis) >= pulse_check)]_vars

\* C16 amended: while Running the release check runs iff more than 5 ms have
\* passed since the last-poll timestamp; the timestamp is set to now exactly
\* when the check runs, and a throttled iteration changes no channel state.
C16_MoreThanInterval ==
    [][(pc = "poll" /\ pulsing) =>
         /\ checked' <=> (now' - pulse_check_millis) > pulse_check
         /\ pulse_check_millis' = IF checked' THEN now' ELSE pulse_check_millis
         /\ ~checked' => UNCHANGED channel_vars]_vars

\* exactly 5 ms after a check, with a pulse in flight: throttled
C16_Witness ==
    /\ pc = "recv"
    /\ pulsing
    /\ ~checked
    /\ pulse_check_millis > 0
    /\ now - pulse_check_millis = pulse_check
    /\ sync_value

\* C17: a clock processed with counter mod 24 = 0 leaves the indicator at the
\* strong level, int(65535 * 0.2) = 13107, with the sync line asserted; with
\* counter mod 12 = 0 and mod 24 # 0 it leaves the weak level, 65.
C17_StrongOverridesWeak ==
    [][n_clocks' = n_clocks + 1 =>
         /\ (clock_ticks % 24 = 0) =>
                /\ led_duty_cycle' = 13107
                /\ pulse_led_millis' = now'
                /\ sync_value'
         /\ (clock_ticks % 12 = 0 /\ clock_ticks % 24 # 0) =>
                /\ led_duty_cycle' = 65
                /\ sync_value']_vars

\* the clock that found the counter at 24 has left the strong level
C17_Witness ==
    /\ pc = "poll"
    /\ msg_in = "TimingClock"
    /\ n_clocks = 25
    /\ clock_ticks = 1
    /\ led_duty_cycle = 13107
    /\ pulse_led_millis = now
    /\ sync_value

\* C18: the first half of an iteration writes the idle ramp iff the transport
\* is Stopped at its start, and then the indicator level is idx mod 2048; so
\* from the first iteration after a Stop until a Start the indicator shows the
\* ramp, whatever pulse was in flight.
C18_IdleRamp ==
    /\ [][pc = "poll" =>
            IF pulsing
            THEN \/ UNCHANGED <<led_duty_cycle, pulse_led_millis>>
                 \/ (checked' /\ led_duty_cycle' = 0 /\ pulse_led_millis' = 0)
            ELSE led_duty_cycle' = idx % RampMod /\ ~checked']_vars
    /\ [][(pc = "recv" /\ ~pulsing) => UNCHANGED led_duty_cycle]_vars
    /\ []((pc = "recv" /\ ~pulsing) => led_duty_cycle = idx % RampMod)

\* Stop arrived with an indicator pulse in flight; the index has passed the
\* modulus and the indicator shows the wrapped ramp
C18_Witness ==
    /\ pc = "recv"
    /\ ~pulsing
    /\ last_transport = "Stop"
    /\ pulse_led_millis # 0
    /\ idx >= RampMod
    /\ led_duty_cycle = idx - RampMod

\* C19: after each clock processed since the last Start the counter is
\* ((m - 1) mod 24) + 1, m the number of those clocks; it is 0 only before the
\* first of them and otherwise lies in [1, 24].
C19_CounterOfClocks ==
    /\ n_clocks = 0 => clock_ticks = 0
    /\ n_clocks > 0 => clock_ticks = ((n_clocks - 1) % BeatTicks) + 1
    /\ clock_ticks = 0 \/ clock_ticks \in 1..BeatTicks

\* the 25th clock after Start: the counter is back at 1
C19_Witness ==
    /\ pulsing
    /\ msg_in = "TimingClock"
    /\ n_clocks = 25
    /\ clock_ticks = 1
====
